---- MODULE Spec2Model ----
(***************************************************************************)
(* Group restaurant matching: the browser client (static/js/app.js) and    *)
(* the matching engine it calls through POST /api/matching.                *)
(*                                                                         *)
(* Strings that the code takes apart or builds (day-of keys, a             *)
(* restaurant's comma separated cuisine field) are sequences of one        *)
(* character strings.  JavaScript numbers are extended rationals <<n, d>>: *)
(* d > 0 is the finite value n/d in lowest terms, <<0, 0>> is NaN,         *)
(* <<1, 0>> is Infinity and <<-1, 0>> is -Infinity.  A JavaScript Map is   *)
(* a function from its keys and a Set is a set: insertion order is not     *)
(* modelled, iteration goes by ascending key.  Ratings are whole numbers;  *)
(* the 0.1 steps of the sliders are not drawn.                             *)
(***************************************************************************)
EXTENDS Integers, Sequences, FiniteSets, TLC

\* ---------------------------------------------------------------- bounds
MaxCalls == 6          \* handler invocations explored in one run
MaxInFlight == 2       \* match requests awaiting their response
MaxOverride == 2       \* entries of an override list drawn for the engine alone

\* ------------------------------------------------------------- constants
NoUser == -1           \* lastSelectedUser when nobody is being edited
MaxDayof == 3          \* dayofRatings.size >= 3 rejects a new day-of rating
DefaultRating == 5     \* rating: 5.0 of a freshly toggled item
MinUsers == 2          \* selectedUsers.size < 2 rejects callMagic
DisplayScale == 10     \* const rating = 10 * match[2] / currMax

Users == {1, 2}
Restaurants == {1, 2}
\* cuisine names handed to the cuisine handlers
CuisineList == <<(<<"T">>), (<<"s">>)>>
CuisineArgs == {CuisineList[i] : i \in 1..Len(CuisineList)}
\* value arguments of the update handlers (this.value of a slider, or any
\* other numeric string): inside and outside [1, 10]
ValueArgs == {<<"0">>, <<"1", "0">>}
\* ratings and user lists of the match requests drawn for the engine alone
EngineRatings == {3, 10}
EngineGroups == {<<1>>, <<1, 1>>, <<1, 2>>, <<2, 1>>}

VARIABLES
    dayofRatingsByUser,   \* Map: user id -> Map: key -> {type, id, rating}
    selectedUsers,        \* Set of user ids
    lastSelectedUser,     \* user whose day-of ratings are edited, or -1
    currentScreen,        \* 'create' | 'list' | 'matching'
    allUsers,             \* ids of the users last loaded from the server
    restaurantRatings,    \* Map: restaurant id -> rating (create screen)
    cuisineRatings,       \* Map: cuisine -> rating (create screen)
    matching,             \* last successful /matching response
    matchbtn,             \* style.display of the match button
    matchingResults,      \* what renderMatchingList put in #matchingResults
    alert,                \* showAlert call of the latest handler step, if any
    inflight,             \* /matching requests sent and not yet answered
    issued,               \* number of /matching requests sent so far
    engineReq,            \* a match request handed to the engine directly
    engineOut,            \* the engine's answer to engineReq
    bulkInflight,         \* /day-of-ratings/bulk requests sent and not yet answered
    deletedUsers,         \* ids the server has deleted
    deleting,             \* position of deleteSelectedUsers in its loop of DELETEs
    calls,                \* handler invocations so far
    rejected,             \* history: the day-of toggle last refused, and how far
                          \* the sequence refuse, remove, toggle again has got
    answered              \* history: the latest-issued /matching request answered
                          \* OK so far, and its answer

clientVars == <<dayofRatingsByUser, selectedUsers, lastSelectedUser, currentScreen,
                allUsers, restaurantRatings, cuisineRatings, matching, matchbtn,
                matchingResults, alert, inflight, issued>>
engineVars == <<engineReq, engineOut>>
listVars == <<bulkInflight, deletedUsers, deleting>>
vars == <<clientVars, engineVars, listVars, calls, rejected, answered>>

\* ------------------------------------------------------- JavaScript values
EmptyMap == [k \in {} |-> 0]
Has(map, k) == k \in DOMAIN map
Size(map) == Cardinality(DOMAIN map)
MapSet(map, k, v) == [x \in DOMAIN map \cup {k} |-> IF x = k THEN v ELSE map[x]]
MapDelete(map, k) == [x \in DOMAIN map \ {k} |-> map[x]]

NoAlert == <<>>
NotDeleting == [active |-> FALSE, visited |-> {}, successCount |-> 0]
ShowAlert(elementId, message, type) == <<elementId, message, type>>

\* `c-${cuisine}` and `r-${id}`
CuisineKey(cuisine) == <<"c", "-">> \o cuisine
RestaurantKey(id) == <<"r", "-", ToString(id)>>
KeyArgs == {CuisineKey(c) : c \in CuisineArgs} \cup {RestaurantKey(r) : r \in Restaurants}

DigitValue(ch) ==
    CASE ch = "0" -> 0 [] ch = "1" -> 1 [] ch = "2" -> 2 [] ch = "3" -> 3 [] ch = "4" -> 4
      [] ch = "5" -> 5 [] ch = "6" -> 6 [] ch = "7" -> 7 [] ch = "8" -> 8 [] ch = "9" -> 9

\* parseFloat of a string of decimal digits
RECURSIVE ParseFloat(_)
ParseFloat(value) ==
    IF value = <<>> THEN 0
    ELSE 10 * ParseFloat(SubSeq(value, 1, Len(value) - 1)) + DigitValue(value[Len(value)])

\* ------------------------------------------------------------ arithmetic
Abs(n) == IF n < 0 THEN -n ELSE n

RECURSIVE Gcd(_, _)
Gcd(a, b) == IF b = 0 THEN a ELSE Gcd(b, a % b)

\* n/d in lowest terms with a positive denominator (d # 0)
Rat(n, d) ==
    LET g == Gcd(Abs(n), Abs(d))
        s == IF d < 0 THEN -1 ELSE 1
    IN  <<(s * n) \div g, (s * d) \div g>>

NaN == <<0, 0>>
Infinity == <<1, 0>>
NegInfinity == <<-1, 0>>

Num(n) == <<n, 1>>
NumMul(x, y) == Rat(x[1] * y[1], x[2] * y[2])
NumLess(x, y) == x[1] * y[2] < y[1] * x[2]
\* x / y of two finite numbers, as JavaScript divides
NumDiv(x, y) ==
    IF y[1] = 0
    THEN IF x[1] > 0 THEN Infinity ELSE IF x[1] < 0 THEN NegInfinity ELSE NaN
    ELSE Rat(x[1] * y[2], x[2] * y[1])

RECURSIVE SumSeq(_)
SumSeq(s) == IF s = <<>> THEN 0 ELSE Head(s) + SumSeq(Tail(s))

\* ---------------------------------------------------------------- strings
RECURSIVE TrimLeft(_)
TrimLeft(s) == IF s # <<>> /\ Head(s) = " " THEN TrimLeft(Tail(s)) ELSE s

RECURSIVE TrimRight(_)
TrimRight(s) ==
    IF s # <<>> /\ s[Len(s)] = " " THEN TrimRight(SubSeq(s, 1, Len(s) - 1)) ELSE s

Trim(s) == TrimRight(TrimLeft(s))

LowerChar(ch) ==
    CASE ch = "T" -> "t"
      [] ch = "S" -> "s"
      [] OTHER -> ch

Lower(s) == [i \in 1..Len(s) |-> LowerChar(s[i])]

\* the pieces of s between commas, in order
RECURSIVE SplitComma(_, _)
SplitComma(s, cur) ==
    IF s = <<>> THEN <<cur>>
    ELSE IF Head(s) = "," THEN <<cur>> \o SplitComma(Tail(s), <<>>)
    ELSE SplitComma(Tail(s), Append(cur, Head(s)))

\* ----------------------------------------------- catalog and stored users
\* Restaurant.cuisine: one string, possibly several comma separated tags
RestaurantCuisine(r) ==
    CASE r = 1 -> <<"t", ",", " ", "s">>
      [] OTHER -> <<"S">>

KnownUsers == Users

\* base preferences of the stored users, as rating entries
BasePreferences(u) ==
    CASE u = 1 -> <<[restaurant_id |-> 2, rating |-> 8]>>
      [] OTHER -> <<[cuisine |-> <<"s">>, rating |-> 4],
                    [restaurant_id |-> 1, rating |-> 6]>>

\* ------------------------------------------------- 4.2 Preference Resolver
IsRestaurantKeyed(e) == "restaurant_id" \in DOMAIN e

\* step 1: an override list, when supplied (even empty), is the effective set
EffectiveSet(entry) ==
    IF entry.override THEN entry.ratings ELSE BasePreferences(entry.user_id)

CuisineTags(r) ==
    LET parts == SplitComma(RestaurantCuisine(r), <<>>)
    IN  {Lower(Trim(parts[i])) : i \in 1..Len(parts)} \ {<<>>}

TagMatches(cuisine, r) == Lower(Trim(cuisine)) \in CuisineTags(r)

RECURSIVE RestaurantKeyed(_, _)
RestaurantKeyed(prefs, r) ==
    IF prefs = <<>> THEN <<>>
    ELSE (IF IsRestaurantKeyed(Head(prefs)) /\ Head(prefs).restaurant_id = r
          THEN <<Head(prefs).rating>> ELSE <<>>) \o RestaurantKeyed(Tail(prefs), r)

RECURSIVE CuisineKeyed(_, _)
CuisineKeyed(prefs, r) ==
    IF prefs = <<>> THEN <<>>
    ELSE (IF ~IsRestaurantKeyed(Head(prefs)) /\ TagMatches(Head(prefs).cuisine, r)
          THEN <<Head(prefs).rating>> ELSE <<>>) \o CuisineKeyed(Tail(prefs), r)

EffectiveAveragingBoth(prefs, r) ==
    LET all == RestaurantKeyed(prefs, r) \o CuisineKeyed(prefs, r)
    IN  IF all # <<>> THEN <<Rat(SumSeq(all), Len(all))>> ELSE <<>>

\* step 3: <<score>> when the user scores r, <<>> when r is unscored
Effective(prefs, r) ==
    LET direct == RestaurantKeyed(prefs, r)
        byCuisine == CuisineKeyed(prefs, r)
    IN  IF direct # <<>> THEN <<Num(direct[1])>>
        ELSE IF byCuisine # <<>> THEN <<Rat(SumSeq(byCuisine), Len(byCuisine))>>
        ELSE <<>>

\* -------------------------------------------------- 4.3 Group Aggregator
\* the effective scores of the request's users for r, absent ones left out
RECURSIVE Contributions(_, _)
Contributions(req, r) ==
    IF req = <<>> THEN <<>>
    ELSE Effective(EffectiveSet(Head(req)), r) \o Contributions(Tail(req), r)

RECURSIVE SumOfScores(_)
SumOfScores(scores) ==
    IF scores = <<>> THEN Num(0)
    ELSE LET h == Head(scores)
             t == SumOfScores(Tail(scores))
         IN  Rat(h[1] * t[2] + t[1] * h[2], h[2] * t[2])

RECURSIVE GroupScore(_)
GroupScore(scores) ==
    IF scores = <<>> THEN Num(1) ELSE NumMul(Head(scores), GroupScore(Tail(scores)))

\* ------------------------------------------------------------ 4.4 Ranker
RECURSIVE AscendingIds(_)
AscendingIds(S) ==
    IF S = {} THEN <<>>
    ELSE LET m == CHOOSE x \in S : \A y \in S : x <= y
         IN  <<m>> \o AscendingIds(S \ {m})

\* one result tuple: (restaurant reference, cuisine label, raw group score)
ResultOf(req, r) == <<r, RestaurantCuisine(r), GroupScore(Contributions(req, r))>>

RankedBefore(a, b) == NumLess(b[3], a[3]) \/ (a[3] = b[3] /\ a[1] < b[1])

RECURSIVE InsertRanked(_, _)
InsertRanked(x, sorted) ==
    IF sorted = <<>> THEN <<x>>
    ELSE IF RankedBefore(x, Head(sorted)) THEN <<x>> \o sorted
    ELSE <<Head(sorted)>> \o InsertRanked(x, Tail(sorted))

RECURSIVE Rank(_)
Rank(results) ==
    IF results = <<>> THEN <<>> ELSE InsertRanked(Head(results), Rank(Tail(results)))

ScoredOrNot(req) == Restaurants

\* the restaurants with at least one contributing user
Scored(req) == {r \in Restaurants : Contributions(req, r) # <<>>}

DistinctUsers(req) == {req[i].user_id : i \in 1..Len(req)}

\* the match request: validation first, then resolve, aggregate and rank
Match(req) ==
    IF Cardinality(DistinctUsers(req)) < MinUsers
    THEN [ok |-> FALSE, error |-> "InsufficientUsers", result |-> <<>>]
    ELSE IF ~(DistinctUsers(req) \subseteq KnownUsers)
    THEN [ok |-> FALSE, error |-> "UnknownUser", result |-> <<>>]
    ELSE LET ids == AscendingIds(Scored(req))
         IN  [ok |-> TRUE, error |-> "",
              result |-> Rank([i \in 1..Len(ids) |-> ResultOf(req, ids[i])])]

\* ------------------------------------------------------------ the client
\* the Map of the user being edited, as the render functions read it
DayofRatingsOf(userId) ==
    IF Has(dayofRatingsByUser, userId) THEN dayofRatingsByUser[userId] ELSE EmptyMap

\* if (!dayofRatingsByUser.has(lastSelectedUser)) set(lastSelectedUser, new Map())
WithMapFor(userId) ==
    IF Has(dayofRatingsByUser, userId) THEN dayofRatingsByUser
    ELSE MapSet(dayofRatingsByUser, userId, EmptyMap)

AtCapacityOffByOne(dayofRatings) == Size(dayofRatings) > MaxDayof

\* if (dayofRatings.size >= 3)
AtCapacity(dayofRatings) == Size(dayofRatings) >= MaxDayof

CapacityAlertMissing == NoAlert

\* showAlert('dayofAlert', 'Maximum 3 day-of ratings allowed!', 'warning')
CapacityAlert == ShowAlert("dayofAlert", "Maximum 3 day-of ratings allowed!", "warning")

\* history of the sequence: a toggle of `key` refused for `user`, then one of
\* that user's ratings removed, then the same toggle again
NoRejection == [user |-> NoUser, key |-> <<>>, stage |-> "none"]

AfterRefusal(key) == [user |-> lastSelectedUser, key |-> key, stage |-> "refused"]

AfterRemoval(key) ==
    IF /\ rejected.stage = "refused"
       /\ rejected.user = lastSelectedUser
       /\ Has(DayofRatingsOf(lastSelectedUser), key)
    THEN [rejected EXCEPT !.stage = "removed"]
    ELSE NoRejection

IsRetry(key) ==
    /\ rejected.stage = "removed"
    /\ rejected.user = lastSelectedUser
    /\ rejected.key = key

\* the body shared by toggleDayofCuisine and toggleDayofRestaurant
ToggleDayof(key, type, id) ==
    LET byUser == WithMapFor(lastSelectedUser)
        dayofRatings == byUser[lastSelectedUser]
    IN  IF Has(dayofRatings, key)
        THEN /\ dayofRatingsByUser' =
                    [byUser EXCEPT ![lastSelectedUser] = MapDelete(dayofRatings, key)]
             /\ alert' = NoAlert
             /\ rejected' = AfterRemoval(key)
        ELSE IF AtCapacity(dayofRatings)
        THEN /\ dayofRatingsByUser' = byUser
             /\ alert' = CapacityAlert
             /\ rejected' = IF IsRetry(key) THEN [rejected EXCEPT !.stage = "retried"]
                                            ELSE AfterRefusal(key)
        ELSE /\ dayofRatingsByUser' =
                    [byUser EXCEPT ![lastSelectedUser] =
                        MapSet(dayofRatings, key,
                               [type |-> type, id |-> id, rating |-> DefaultRating])]
             /\ alert' = NoAlert
             /\ rejected' = IF IsRetry(key) THEN [rejected EXCEPT !.stage = "retried"]
                                            ELSE NoRejection

Count == calls < MaxCalls /\ calls' = calls + 1

\* a handler that is not the arrival of a /matching answer
Tick == Count /\ answered' = answered

\* a handler that takes no part in the refuse, remove, toggle again sequence
Step == Tick /\ rejected' = NoRejection

toggleDayofCuisine(cuisine) ==
    /\ Tick
    /\ ToggleDayof(CuisineKey(cuisine), "cuisine", cuisine)
    /\ UNCHANGED <<selectedUsers, lastSelectedUser, currentScreen, allUsers,
                   restaurantRatings, cuisineRatings, matching, matchbtn,
                   matchingResults, inflight, issued, engineVars, listVars>>

toggleDayofRestaurant(id) ==
    /\ Tick
    /\ ToggleDayof(RestaurantKey(id), "restaurant", id)
    /\ UNCHANGED <<selectedUsers, lastSelectedUser, currentScreen, allUsers,
                   restaurantRatings, cuisineRatings, matching, matchbtn,
                   matchingResults, inflight, issued, engineVars, listVars>>

updateDayofRating(key, value) ==
    /\ Step
    /\ dayofRatingsByUser' =
          IF Has(dayofRatingsByUser, lastSelectedUser)
             /\ Has(dayofRatingsByUser[lastSelectedUser], key)
          THEN [dayofRatingsByUser EXCEPT
                   ![lastSelectedUser][key].rating = ParseFloat(value)]
          ELSE dayofRatingsByUser
    /\ alert' = NoAlert
    /\ UNCHANGED <<selectedUsers, lastSelectedUser, currentScreen, allUsers,
                   restaurantRatings, cuisineRatings, matching, matchbtn,
                   matchingResults, inflight, issued, engineVars, listVars>>

removeDayofRatingKeeping(key) ==
    /\ Tick
    /\ rejected' = AfterRemoval(key)
    /\ dayofRatingsByUser' = dayofRatingsByUser
    /\ alert' = NoAlert
    /\ UNCHANGED <<selectedUsers, lastSelectedUser, currentScreen, allUsers,
                   restaurantRatings, cuisineRatings, matching, matchbtn,
                   matchingResults, inflight, issued, engineVars, listVars>>

removeDayofRating(key) ==
    /\ Tick
    /\ rejected' = AfterRemoval(key)
    /\ dayofRatingsByUser' =
          IF Has(dayofRatingsByUser, lastSelectedUser)
          THEN [dayofRatingsByUser EXCEPT
                   ![lastSelectedUser] = MapDelete(@, key)]
          ELSE dayofRatingsByUser
    /\ alert' = NoAlert
    /\ UNCHANGED <<selectedUsers, lastSelectedUser, currentScreen, allUsers,
                   restaurantRatings, cuisineRatings, matching, matchbtn,
                   matchingResults, inflight, issued, engineVars, listVars>>

\* if (selectedUsers.size >= 2) show the match button, else hide it
MatchButtonFor(selected) ==
    IF Cardinality(selected) >= MinUsers THEN "inline-block" ELSE "none"

toggleUser(id) ==
    /\ Step
    /\ IF id \in selectedUsers
       THEN /\ selectedUsers' = selectedUsers \ {id}
            /\ lastSelectedUser' = NoUser
       ELSE /\ selectedUsers' = selectedUsers \cup {id}
            /\ lastSelectedUser' = id
    /\ matchbtn' = MatchButtonFor(selectedUsers')
    /\ alert' = NoAlert
    /\ UNCHANGED <<dayofRatingsByUser, currentScreen, allUsers, restaurantRatings,
                   cuisineRatings, matching, matchingResults, inflight, issued,
                   engineVars, listVars>>

selectAllUsers ==
    /\ Step
    /\ selectedUsers' = selectedUsers \cup allUsers
    /\ alert' = NoAlert
    /\ UNCHANGED <<dayofRatingsByUser, lastSelectedUser, currentScreen, allUsers,
                   restaurantRatings, cuisineRatings, matching, matchbtn,
                   matchingResults, inflight, issued, engineVars, listVars>>

deselectAllUsers ==
    /\ Step
    /\ selectedUsers' = {}
    /\ lastSelectedUser' = NoUser
    /\ alert' = NoAlert
    /\ UNCHANGED <<dayofRatingsByUser, currentScreen, allUsers, restaurantRatings,
                   cuisineRatings, matching, matchbtn, matchingResults, inflight,
                   issued, engineVars, listVars>>

\* the state change of switchScreen(newScreen); loadUsers() answers later
SwitchScreen(newScreen) ==
    IF newScreen
    THEN /\ currentScreen' = "matching"
         /\ UNCHANGED <<restaurantRatings, cuisineRatings, selectedUsers>>
    ELSE IF currentScreen = "create"
    THEN /\ currentScreen' = "list"
         /\ UNCHANGED <<restaurantRatings, cuisineRatings, selectedUsers>>
    ELSE /\ currentScreen' = "create"
         /\ restaurantRatings' = EmptyMap
         /\ cuisineRatings' = EmptyMap
         /\ selectedUsers' = {}

switchScreen(newScreen) ==
    /\ Step
    /\ SwitchScreen(newScreen)
    /\ alert' = NoAlert
    /\ UNCHANGED <<dayofRatingsByUser, lastSelectedUser, allUsers, matching, matchbtn,
                   matchingResults, inflight, issued, engineVars, listVars>>

\* loadUsers(): the answer to GET /users arrives, or the fetch fails
loadUsers ==
    /\ Step
    /\ \/ /\ allUsers' = KnownUsers \ deletedUsers
          /\ alert' = NoAlert
       \/ /\ allUsers' = allUsers
          /\ alert' = ShowAlert("listAlert", "Error loading users", "error")
    /\ UNCHANGED <<dayofRatingsByUser, selectedUsers, lastSelectedUser, currentScreen,
                   restaurantRatings, cuisineRatings, matching, matchbtn,
                   matchingResults, inflight, issued, engineVars, listVars>>

\* the keys of a day-of Map in a fixed order
KeyList ==
    LET ids == AscendingIds(Restaurants)
    IN  [i \in 1..Len(ids) |-> RestaurantKey(ids[i])]
        \o [i \in 1..Len(CuisineList) |-> CuisineKey(CuisineList[i])]

\* ratings.push({restaurant_id | cuisine: rating.id, rating: rating.rating})
RatingEntry(rating) ==
    IF rating.type = "restaurant"
    THEN [restaurant_id |-> rating.id, rating |-> rating.rating]
    ELSE [cuisine |-> rating.id, rating |-> rating.rating]

RECURSIVE RatingsFrom(_, _)
RatingsFrom(dayofRatings, keys) ==
    IF keys = <<>> THEN <<>>
    ELSE (IF Has(dayofRatings, Head(keys))
          THEN <<RatingEntry(dayofRatings[Head(keys)])>> ELSE <<>>)
         \o RatingsFrom(dayofRatings, Tail(keys))

UserRatingsEntryOmittingEmpty(userId) ==
    [user_id |-> userId, override |-> DayofRatingsOf(userId) # EmptyMap,
     ratings |-> RatingsFrom(DayofRatingsOf(userId), KeyList)]

\* one element of user_ratings: the ratings list is always sent, empty or not
UserRatingsEntry(userId) ==
    [user_id |-> userId, override |-> TRUE,
     ratings |-> RatingsFrom(DayofRatingsOf(userId), KeyList)]

\* const userRatings = Array.from(selectedUsers).map(...)
UserRatings ==
    LET userIds == AscendingIds(selectedUsers)
    IN  [i \in 1..Len(userIds) |-> UserRatingsEntry(userIds[i])]

TooFewSelectedOffByOne == Cardinality(selectedUsers) < MinUsers - 1

\* if (selectedUsers.size < 2)
TooFewSelected == Cardinality(selectedUsers) < MinUsers

\* callMagic up to its await: validate, build the payload, send the request
callMagic ==
    /\ Step
    /\ IF TooFewSelected
       THEN /\ alert' = ShowAlert("listAlert",
                           "Please select at least 2 users to generate matches", "error")
            /\ UNCHANGED <<inflight, issued>>
       ELSE /\ Len(inflight) < MaxInFlight
            /\ alert' = ShowAlert("listAlert", "Generating matches...", "success")
            /\ issued' = issued + 1
            /\ inflight' = Append(inflight,
                              [seq |-> issued + 1, user_ratings |-> UserRatings])
    /\ UNCHANGED <<dayofRatingsByUser, selectedUsers, lastSelectedUser, currentScreen,
                   allUsers, restaurantRatings, cuisineRatings, matching, matchbtn,
                   matchingResults, engineVars, listVars>>

\* Math.max(...xs) of finite numbers
RECURSIVE MathMax(_)
MathMax(xs) ==
    IF xs = <<>> THEN NegInfinity
    ELSE IF Tail(xs) = <<>> THEN Head(xs)
    ELSE LET m == MathMax(Tail(xs))
         IN  IF NumLess(Head(xs), m) THEN m ELSE Head(xs)

\* const rating = 10 * match[2] / currMax
DisplayScore(score, currMax) == NumDiv(NumMul(Num(DisplayScale), score), currMax)

RenderMatchingListReversed(list) ==
    IF list = <<>> THEN [kind |-> "empty-state", text |-> "No matching restaurants found",
                         cards |-> <<>>]
    ELSE LET currMax == MathMax([i \in 1..Len(list) |-> list[i][3]])
         IN  [kind |-> "match-cards", text |-> "",
              cards |-> [i \in 1..Len(list) |->
                            [rank |-> i, restaurant |-> list[Len(list) + 1 - i][1],
                             raw |-> list[Len(list) + 1 - i][3],
                             rating |-> DisplayScore(list[Len(list) + 1 - i][3], currMax)]]]

EmptyState == [kind |-> "empty-state", text |-> "No matching restaurants found",
               cards |-> <<>>]

\* renderMatchingList(): the cards in the order of `matching`, rank = index + 1
RenderMatchingList(list) ==
    IF list = <<>> THEN EmptyState
    ELSE LET currMax == MathMax([i \in 1..Len(list) |-> list[i][3]])
         IN  [kind |-> "match-cards", text |-> "",
              cards |-> [i \in 1..Len(list) |->
                            [rank |-> i, restaurant |-> list[i][1],
                             raw |-> list[i][3],
                             rating |-> DisplayScore(list[i][3], currMax)]]]

\* history of the /matching answers: the answer to the request issued last
\* among those answered OK
NoneAnswered == [seq |-> 0, result |-> <<>>]

AfterAnswer(request, result) ==
    IF request.seq > answered.seq THEN [seq |-> request.seq, result |-> result]
    ELSE answered

RemoveAt(seq, i) == SubSeq(seq, 1, i - 1) \o SubSeq(seq, i + 1, Len(seq))

\* callMagic after its await: the server answered request i
matchingResponse(i) ==
    /\ Count
    /\ rejected' = NoRejection
    /\ i \in 1..Len(inflight)
    /\ inflight' = RemoveAt(inflight, i)
    /\ LET res == Match(inflight[i].user_ratings)
       IN  IF ~res.ok
           THEN /\ alert' = ShowAlert("listAlert", res.error, "error")
                /\ UNCHANGED <<matching, matchingResults, currentScreen,
                               restaurantRatings, cuisineRatings, selectedUsers,
                               answered>>
           ELSE /\ matching' = res.result
                /\ answered' = AfterAnswer(inflight[i], res.result)
                /\ SwitchScreen(TRUE)
                /\ matchingResults' = RenderMatchingList(matching')
                /\ alert' = NoAlert
    /\ UNCHANGED <<dayofRatingsByUser, lastSelectedUser, allUsers, matchbtn, issued,
                   engineVars, listVars>>

matchingFailureSwitching(i) ==
    /\ Step
    /\ i \in 1..Len(inflight)
    /\ inflight' = RemoveAt(inflight, i)
    /\ \E message \in {"Failed to generate matches", "Error generating matches"} :
          alert' = ShowAlert("listAlert", message, "error")
    /\ currentScreen' = "matching"
    /\ UNCHANGED <<dayofRatingsByUser, selectedUsers, lastSelectedUser,
                   allUsers, restaurantRatings, cuisineRatings, matching, matchbtn,
                   matchingResults, issued, engineVars, listVars>>

\* callMagic after its await: a non-OK answer that is not the engine's, or
\* the fetch itself failing
matchingFailure(i) ==
    /\ Step
    /\ i \in 1..Len(inflight)
    /\ inflight' = RemoveAt(inflight, i)
    /\ \E message \in {"Failed to generate matches", "Error generating matches"} :
          alert' = ShowAlert("listAlert", message, "error")
    /\ UNCHANGED <<dayofRatingsByUser, selectedUsers, lastSelectedUser, currentScreen,
                   allUsers, restaurantRatings, cuisineRatings, matching, matchbtn,
                   matchingResults, issued, engineVars, listVars>>

\* ------------------------------------------- saving the day-of ratings
\* const entry = {user_id: userId, rating: rating.rating, restaurant_id | cuisine}
SaveEntry(userId, rating) ==
    IF rating.type = "restaurant"
    THEN [user_id |-> userId, rating |-> rating.rating, restaurant_id |-> rating.id]
    ELSE [user_id |-> userId, rating |-> rating.rating, cuisine |-> rating.id]

\* dayofRatings.forEach(rating => payloads.push(entry))
RECURSIVE SavePayloads(_, _, _)
SavePayloads(userId, dayofRatings, keys) ==
    IF keys = <<>> THEN <<>>
    ELSE (IF Has(dayofRatings, Head(keys))
          THEN <<SaveEntry(userId, dayofRatings[Head(keys)])>> ELSE <<>>)
         \o SavePayloads(userId, dayofRatings, Tail(keys))

\* saveAllDayofRatings up to its await: the user id is the one selected user,
\* the ratings are those of lastSelectedUser's Map
saveAllDayofRatings ==
    /\ Step
    /\ IF Cardinality(selectedUsers) # 1 \/ ~Has(dayofRatingsByUser, lastSelectedUser)
       THEN UNCHANGED bulkInflight
       ELSE LET userId == CHOOSE id \in selectedUsers : TRUE
                dayofRatings == dayofRatingsByUser[lastSelectedUser]
            IN  /\ Len(bulkInflight) < MaxInFlight
                /\ bulkInflight' = Append(bulkInflight,
                                       [ratings |-> SavePayloads(userId, dayofRatings, KeyList)])
    /\ alert' = NoAlert
    /\ UNCHANGED <<dayofRatingsByUser, selectedUsers, lastSelectedUser, currentScreen,
                   allUsers, restaurantRatings, cuisineRatings, matching, matchbtn,
                   matchingResults, inflight, issued, engineVars, deletedUsers, deleting>>

\* saveAllDayofRatings after its await: any answer counts as saved (res.ok is
\* not read) and loadUsers() answers later; a failed fetch raises the error
saveAllDayofRatingsAnswer ==
    /\ Step
    /\ bulkInflight # <<>>
    /\ bulkInflight' = Tail(bulkInflight)
    /\ \/ alert' = ShowAlert("dayofAlert", "All day-of ratings saved!", "success")
       \/ alert' = ShowAlert("dayofAlert", "Error saving ratings", "error")
    /\ UNCHANGED <<dayofRatingsByUser, selectedUsers, lastSelectedUser, currentScreen,
                   allUsers, restaurantRatings, cuisineRatings, matching, matchbtn,
                   matchingResults, inflight, issued, engineVars, deletedUsers, deleting>>

\* ------------------------------------------------------ deleting users
\* deleteSelectedUsers up to its first await; confirm() answers yes or no
deleteSelectedUsers ==
    /\ Step
    /\ ~deleting.active
    /\ IF selectedUsers = {}
       THEN /\ alert' = ShowAlert("listAlert", "No users selected", "error")
            /\ UNCHANGED deleting
       ELSE /\ alert' = NoAlert
            /\ \/ UNCHANGED deleting
               \/ deleting' = [active |-> TRUE, visited |-> {}, successCount |-> 0]
    /\ UNCHANGED <<dayofRatingsByUser, selectedUsers, lastSelectedUser, currentScreen,
                   allUsers, restaurantRatings, cuisineRatings, matching, matchbtn,
                   matchingResults, inflight, issued, engineVars, bulkInflight,
                   deletedUsers>>

\* one turn of `for (const userId of selectedUsers)`: the DELETE for userId is
\* answered, OK or not; the Set is read as it is at that moment
deleteUserAnswer(userId) ==
    /\ Step
    /\ deleting.active
    /\ userId \in selectedUsers \ deleting.visited
    /\ \/ /\ deletedUsers' = deletedUsers \cup {userId}
          /\ deleting' = [deleting EXCEPT !.visited = @ \cup {userId},
                                          !.successCount = @ + 1]
       \/ /\ deletedUsers' = deletedUsers
          /\ deleting' = [deleting EXCEPT !.visited = @ \cup {userId}]
    /\ alert' = NoAlert
    /\ UNCHANGED <<dayofRatingsByUser, selectedUsers, lastSelectedUser, currentScreen,
                   allUsers, restaurantRatings, cuisineRatings, matching, matchbtn,
                   matchingResults, inflight, issued, engineVars, bulkInflight>>

\* deleteSelectedUsers after its loop; loadUsers() answers later
deleteSelectedUsersDone ==
    /\ Step
    /\ deleting.active
    /\ selectedUsers \ deleting.visited = {}
    /\ alert' = ShowAlert("listAlert",
                   "Successfully deleted " \o ToString(deleting.successCount) \o " user(s)",
                   "success")
    /\ selectedUsers' = {}
    /\ deleting' = NotDeleting
    /\ UNCHANGED <<dayofRatingsByUser, lastSelectedUser, currentScreen,
                   allUsers, restaurantRatings, cuisineRatings, matching, matchbtn,
                   matchingResults, inflight, issued, engineVars, bulkInflight,
                   deletedUsers>>

\* ------------------------------------------------------ the create screen
ToggleRating(map, k) == IF Has(map, k) THEN MapDelete(map, k) ELSE MapSet(map, k, DefaultRating)

toggleRestaurant(id) ==
    /\ Step
    /\ restaurantRatings' = ToggleRating(restaurantRatings, id)
    /\ alert' = NoAlert
    /\ UNCHANGED <<dayofRatingsByUser, selectedUsers, lastSelectedUser, currentScreen,
                   allUsers, cuisineRatings, matching, matchbtn, matchingResults,
                   inflight, issued, engineVars, listVars>>

updateRating(id, value) ==
    /\ Step
    /\ restaurantRatings' = MapSet(restaurantRatings, id, ParseFloat(value))
    /\ alert' = NoAlert
    /\ UNCHANGED <<dayofRatingsByUser, selectedUsers, lastSelectedUser, currentScreen,
                   allUsers, cuisineRatings, matching, matchbtn, matchingResults,
                   inflight, issued, engineVars, listVars>>

removeRestaurant(id) ==
    /\ Step
    /\ restaurantRatings' = MapDelete(restaurantRatings, id)
    /\ alert' = NoAlert
    /\ UNCHANGED <<dayofRatingsByUser, selectedUsers, lastSelectedUser, currentScreen,
                   allUsers, cuisineRatings, matching, matchbtn, matchingResults,
                   inflight, issued, engineVars, listVars>>

toggleCuisine(cuisine) ==
    /\ Step
    /\ cuisineRatings' = ToggleRating(cuisineRatings, cuisine)
    /\ alert' = NoAlert
    /\ UNCHANGED <<dayofRatingsByUser, selectedUsers, lastSelectedUser, currentScreen,
                   allUsers, restaurantRatings, matching, matchbtn, matchingResults,
                   inflight, issued, engineVars, listVars>>

updateCuisineRating(cuisine, value) ==
    /\ Step
    /\ cuisineRatings' = MapSet(cuisineRatings, cuisine, ParseFloat(value))
    /\ alert' = NoAlert
    /\ UNCHANGED <<dayofRatingsByUser, selectedUsers, lastSelectedUser, currentScreen,
                   allUsers, restaurantRatings, matching, matchbtn, matchingResults,
                   inflight, issued, engineVars, listVars>>

removeCuisine(cuisine) ==
    /\ Step
    /\ cuisineRatings' = MapDelete(cuisineRatings, cuisine)
    /\ alert' = NoAlert
    /\ UNCHANGED <<dayofRatingsByUser, selectedUsers, lastSelectedUser, currentScreen,
                   allUsers, restaurantRatings, matching, matchbtn, matchingResults,
                   inflight, issued, engineVars, listVars>>

\* ------------------------------------------------------ the engine alone
NotRun == [ok |-> FALSE, error |-> "not run", result |-> <<>>]

TargetEntry(key, rating) ==
    IF key[1] = "r"
    THEN [restaurant_id |-> CHOOSE r \in Restaurants : RestaurantKey(r) = key,
          rating |-> rating]
    ELSE [cuisine |-> SubSeq(key, 3, Len(key)), rating |-> rating]

RECURSIVE EntriesOf(_, _)
EntriesOf(f, keys) ==
    IF keys = <<>> THEN <<>>
    ELSE (IF Head(keys) \in DOMAIN f
          THEN <<TargetEntry(Head(keys), f[Head(keys)])>> ELSE <<>>)
         \o EntriesOf(f, Tail(keys))

\* override lists of at most MaxOverride entries, one per target at most
OverrideLists ==
    {EntriesOf(f, KeyList) :
        f \in UNION {[K -> EngineRatings] :
                        K \in {K \in SUBSET KeyArgs : Cardinality(K) <= MaxOverride}}}

RequestEntries(userId) ==
    {[user_id |-> userId, override |-> FALSE, ratings |-> <<>>]}
    \cup {[user_id |-> userId, override |-> TRUE, ratings |-> l] : l \in OverrideLists}

\* the engine computes the answer to the request it was handed
engineMatch ==
    /\ engineOut = NotRun
    /\ engineOut' = Match(engineReq)
    /\ UNCHANGED <<clientVars, engineReq, listVars, calls, rejected, answered>>

\* ------------------------------------------------------- specifications
InitClient ==
    /\ dayofRatingsByUser = EmptyMap
    /\ selectedUsers = {}
    /\ lastSelectedUser = NoUser
    /\ currentScreen = "create"
    /\ allUsers = {}
    /\ restaurantRatings = EmptyMap
    /\ cuisineRatings = EmptyMap
    /\ matching = <<>>
    /\ matchbtn = "none"
    /\ matchingResults = [kind |-> "", text |-> "", cards |-> <<>>]
    /\ alert = NoAlert
    /\ inflight = <<>>
    /\ issued = 0
    /\ bulkInflight = <<>>
    /\ deletedUsers = {}
    /\ deleting = NotDeleting
    /\ calls = 0
    /\ rejected = NoRejection
    /\ answered = NoneAnswered

Init ==
    /\ InitClient
    /\ engineReq = <<>>
    /\ engineOut = NotRun

Next ==
    \/ \E cuisine \in CuisineArgs : toggleDayofCuisine(cuisine)
    \/ \E id \in Restaurants : toggleDayofRestaurant(id)
    \/ \E key \in KeyArgs, value \in ValueArgs : updateDayofRating(key, value)
    \/ \E key \in KeyArgs : removeDayofRating(key)
    \/ \E id \in Users : toggleUser(id)
    \/ selectAllUsers
    \/ deselectAllUsers
    \/ \E newScreen \in BOOLEAN : switchScreen(newScreen)
    \/ loadUsers
    \/ callMagic
    \/ \E i \in 1..MaxInFlight : matchingResponse(i)
    \/ \E i \in 1..MaxInFlight : matchingFailure(i)

Spec == Init /\ [][Next]_vars

InitEngine ==
    /\ InitClient
    /\ \E group \in EngineGroups :
          engineReq \in {req \in [1..Len(group) -> UNION {RequestEntries(u) : u \in Users}] :
                            \A i \in 1..Len(group) : req[i].user_id = group[i]}
    /\ engineOut = NotRun

SpecEngine == InitEngine /\ [][engineMatch]_vars

\* the create screen on its own
NextCreate ==
    \/ \E id \in Restaurants : toggleRestaurant(id)
    \/ \E id \in Restaurants, value \in ValueArgs : updateRating(id, value)
    \/ \E id \in Restaurants : removeRestaurant(id)
    \/ \E cuisine \in CuisineArgs : toggleCuisine(cuisine)
    \/ \E cuisine \in CuisineArgs, value \in ValueArgs : updateCuisineRating(cuisine, value)
    \/ \E cuisine \in CuisineArgs : removeCuisine(cuisine)
    \/ \E newScreen \in BOOLEAN : switchScreen(newScreen)

SpecCreate == Init /\ [][NextCreate]_vars

\* the day-of section on its own, opened by selecting one user of the list
InitDayof ==
    /\ dayofRatingsByUser = EmptyMap
    /\ \E id \in Users : selectedUsers = {id} /\ lastSelectedUser = id
    /\ currentScreen = "list"
    /\ allUsers = KnownUsers
    /\ restaurantRatings = EmptyMap
    /\ cuisineRatings = EmptyMap
    /\ matching = <<>>
    /\ matchbtn = "none"
    /\ matchingResults = [kind |-> "", text |-> "", cards |-> <<>>]
    /\ alert = NoAlert
    /\ inflight = <<>>
    /\ issued = 0
    /\ bulkInflight = <<>>
    /\ deletedUsers = {}
    /\ deleting = NotDeleting
    /\ calls = 0
    /\ rejected = NoRejection
    /\ answered = NoneAnswered
    /\ engineReq = <<>>
    /\ engineOut = NotRun

NextDayof ==
    \/ \E cuisine \in CuisineArgs : toggleDayofCuisine(cuisine)
    \/ \E id \in Restaurants : toggleDayofRestaurant(id)
    \/ \E key \in KeyArgs, value \in ValueArgs : updateDayofRating(key, value)
    \/ \E key \in KeyArgs : removeDayofRating(key)

SpecDayof == InitDayof /\ [][NextDayof]_vars

\* overlapping match requests, from two users selected on the list screen
InitMatch ==
    /\ dayofRatingsByUser = EmptyMap
    /\ selectedUsers = Users
    /\ lastSelectedUser \in Users
    /\ currentScreen = "list"
    /\ allUsers = KnownUsers
    /\ restaurantRatings = EmptyMap
    /\ cuisineRatings = EmptyMap
    /\ matching = <<>>
    /\ matchbtn = MatchButtonFor(Users)
    /\ matchingResults = [kind |-> "", text |-> "", cards |-> <<>>]
    /\ alert = NoAlert
    /\ inflight = <<>>
    /\ issued = 0
    /\ bulkInflight = <<>>
    /\ deletedUsers = {}
    /\ deleting = NotDeleting
    /\ calls = 0
    /\ rejected = NoRejection
    /\ answered = NoneAnswered
    /\ engineReq = <<>>
    /\ engineOut = NotRun

NextMatch ==
    \/ \E cuisine \in CuisineArgs : toggleDayofCuisine(cuisine)
    \/ \E id \in Restaurants : toggleDayofRestaurant(id)
    \/ \E key \in KeyArgs, value \in ValueArgs : updateDayofRating(key, value)
    \/ callMagic
    \/ \E i \in 1..MaxInFlight : matchingResponse(i)
    \/ \E i \in 1..MaxInFlight : matchingFailure(i)

SpecMatch == InitMatch /\ [][NextMatch]_vars

\* the list screen with its handlers that select, delete and save
NextList ==
    \/ \E id \in Users : toggleUser(id)
    \/ selectAllUsers
    \/ deselectAllUsers
    \/ \E newScreen \in BOOLEAN : switchScreen(newScreen)
    \/ loadUsers
    \/ deleteSelectedUsers
    \/ \E userId \in Users : deleteUserAnswer(userId)
    \/ deleteSelectedUsersDone
    \/ \E cuisine \in CuisineArgs : toggleDayofCuisine(cuisine)
    \/ \E id \in Restaurants : toggleDayofRestaurant(id)
    \/ saveAllDayofRatings
    \/ saveAllDayofRatingsAnswer
    \/ callMagic

SpecList == Init /\ [][NextList]_vars

\* ================================================================ claims

\* C1: every per-user map stored in dayofRatingsByUser holds at most 3
\* day-of ratings, in every reachable state.
C1_AtMostThreeDayof ==
    \A u \in DOMAIN dayofRatingsByUser : Cardinality(DOMAIN dayofRatingsByUser[u]) <= 3

C1_Witness ==
    /\ \E u \in DOMAIN dayofRatingsByUser : Cardinality(DOMAIN dayofRatingsByUser[u]) = 3
    /\ alert = CapacityAlert

IsDayofToggleOf(key) ==
    \/ \E cuisine \in CuisineArgs : key = CuisineKey(cuisine) /\ toggleDayofCuisine(cuisine)
    \/ \E id \in Restaurants : key = RestaurantKey(id) /\ toggleDayofRestaurant(id)

\* C2: when the current user already has 3 day-of ratings, toggling a
\* restaurant or cuisine that is not among them raises the 'Maximum 3 day-of
\* ratings allowed!' alert and leaves that user's 3 ratings as they were.
C2_FourthRejected ==
    [][\A key \in KeyArgs :
          (/\ IsDayofToggleOf(key)
           /\ Cardinality(DOMAIN DayofRatingsOf(lastSelectedUser)) = 3
           /\ key \notin DOMAIN DayofRatingsOf(lastSelectedUser))
          => /\ alert' = <<"dayofAlert", "Maximum 3 day-of ratings allowed!", "warning">>
             /\ lastSelectedUser' = lastSelectedUser
             /\ dayofRatingsByUser' = dayofRatingsByUser]_vars

C2_Witness ==
    /\ lastSelectedUser \in Users
    /\ alert = CapacityAlert
    /\ Cardinality(DOMAIN DayofRatingsOf(lastSelectedUser)) = 3
    /\ \E k \in DOMAIN DayofRatingsOf(lastSelectedUser) :
          DayofRatingsOf(lastSelectedUser)[k].rating # DefaultRating

\* C3: callMagic with fewer than 2 selected users raises the insufficient
\* users alert and sends nothing: no request is issued, and matching and
\* currentScreen are unchanged.
C3_TooFewUsersSendNothing ==
    [][(callMagic /\ Cardinality(selectedUsers) < 2)
        => /\ alert' = <<"listAlert",
                         "Please select at least 2 users to generate matches", "error">>
           /\ inflight' = inflight
           /\ issued' = issued
           /\ matching' = matching
           /\ currentScreen' = currentScreen]_vars

C3_Witness ==
    /\ Cardinality(selectedUsers) = 1
    /\ alert = <<"listAlert", "Please select at least 2 users to generate matches", "error">>
    /\ issued = 0

RECURSIVE NumeratorProduct(_, _)
NumeratorProduct(scores, n) ==
    IF n = 0 THEN 1 ELSE NumeratorProduct(scores, n - 1) * scores[n][1]

RECURSIVE DenominatorProduct(_, _)
DenominatorProduct(scores, n) ==
    IF n = 0 THEN 1 ELSE DenominatorProduct(scores, n - 1) * scores[n][2]

IsProductOf(score, scores) ==
    score[1] * DenominatorProduct(scores, Len(scores))
        = NumeratorProduct(scores, Len(scores)) * score[2]

NineNineNineNineOne == <<Num(9), Num(9), Num(9), Num(9), Num(1)>>
AllSix == <<Num(6), Num(6), Num(6), Num(6), Num(6)>>

\* C5: the group score of every ranked restaurant is the product of the
\* effective scores of its contributing users; effective scores [9,9,9,9,1]
\* give 6561, which ranks below five users scoring 6 (7776).
C5_GroupScoreIsProduct ==
    /\ GroupScore(NineNineNineNineOne) = <<6561, 1>>
    /\ GroupScore(AllSix) = <<7776, 1>>
    /\ RankedBefore(<<2, <<>>, GroupScore(AllSix)>>,
                    <<1, <<>>, GroupScore(NineNineNineNineOne)>>)
    /\ engineOut.ok =>
          \A k \in 1..Len(engineOut.result) :
              LET t == engineOut.result[k]
              IN  IsProductOf(t[3], Contributions(engineReq, t[1]))

C5_Witness ==
    /\ engineOut.ok
    /\ \E k \in 1..Len(engineOut.result) :
          LET t == engineOut.result[k]
              scores == Contributions(engineReq, t[1])
          IN  /\ Len(scores) = 2
              /\ scores[1] # scores[2]
              /\ t[3] # SumOfScores(scores)

\* the catalog's tags, written out
TagsOfRestaurant(r) == IF r = 1 THEN {<<"t">>, <<"s">>} ELSE {<<"s">>}
NameOfCuisine(cuisine) == IF cuisine = <<"T">> THEN <<"t">> ELSE cuisine

DirectRatings(prefs, r) ==
    {i \in 1..Len(prefs) :
        "restaurant_id" \in DOMAIN prefs[i] /\ prefs[i].restaurant_id = r}

CuisineRatingsFor(prefs, r) ==
    {i \in 1..Len(prefs) :
        "cuisine" \in DOMAIN prefs[i] /\ NameOfCuisine(prefs[i].cuisine) \in TagsOfRestaurant(r)}

RECURSIVE SumOfRatings(_, _)
SumOfRatings(prefs, S) ==
    IF S = {} THEN 0
    ELSE LET i == CHOOSE x \in S : TRUE
         IN  prefs[i].rating + SumOfRatings(prefs, S \ {i})

\* C6: effective(U, R) has exactly one source: the restaurant-keyed rating
\* for R when there is one (cuisine ratings are then ignored); otherwise the
\* mean of the cuisine-keyed ratings whose cuisine is one of R's tags;
\* otherwise it is absent.
C6_EffectiveHasOneSource ==
    \A j \in 1..Len(engineReq) : \A r \in Restaurants :
        LET prefs == EffectiveSet(engineReq[j])
            eff == Effective(prefs, r)
            direct == DirectRatings(prefs, r)
            cuisines == CuisineRatingsFor(prefs, r)
        IN  IF direct # {}
            THEN \E i \in direct : eff = <<(<<prefs[i].rating, 1>>)>>
            ELSE IF cuisines # {}
            THEN /\ Len(eff) = 1
                 /\ eff[1][1] * Cardinality(cuisines)
                        = SumOfRatings(prefs, cuisines) * eff[1][2]
            ELSE eff = <<>>

C6_Witness ==
    /\ engineOut.ok
    /\ \E j \in 1..Len(engineReq) :
          LET prefs == EffectiveSet(engineReq[j])
          IN  /\ DirectRatings(prefs, 1) # {}
              /\ CuisineRatingsFor(prefs, 1) # {}
              /\ \E i \in DirectRatings(prefs, 1), c \in CuisineRatingsFor(prefs, 1) :
                    prefs[i].rating # prefs[c].rating
              /\ DirectRatings(prefs, 2) = {}
              /\ CuisineRatingsFor(prefs, 2) = {}

HasContributor(req, r) ==
    \E j \in 1..Len(req) :
        \/ DirectRatings(EffectiveSet(req[j]), r) # {}
        \/ CuisineRatingsFor(EffectiveSet(req[j]), r) # {}

\* C7: a restaurant appears in a match result exactly when at least one user
\* of the group has an effective score for it, and a restaurant with exactly
\* one contributor appears with that single effective score.
C7_RankedIffContributor ==
    engineOut.ok =>
        /\ {engineOut.result[k][1] : k \in 1..Len(engineOut.result)}
               = {r \in Restaurants : HasContributor(engineReq, r)}
        /\ \A k \in 1..Len(engineOut.result) :
              LET t == engineOut.result[k]
                  scores == Contributions(engineReq, t[1])
              IN  Len(scores) = 1 => t[3] = scores[1]

C7_Witness ==
    /\ engineOut.ok
    /\ Len(engineOut.result) = 1
    /\ Len(Contributions(engineReq, engineOut.result[1][1])) = 1
    /\ \E r \in Restaurants : ~HasContributor(engineReq, r)

\* C8: the cards renderMatchingList shows are in descending order of raw
\* group score, equal scores in ascending order of restaurant id.
C8_RankedOrder ==
    \A i, j \in 1..Len(matchingResults.cards) :
        LET a == matchingResults.cards[i]
            b == matchingResults.cards[j]
        IN  i < j =>
               /\ a.rank = i /\ b.rank = j
               /\ \/ a.raw[1] * b.raw[2] > b.raw[1] * a.raw[2]
                  \/ a.raw = b.raw /\ a.restaurant < b.restaurant

C8_Witness ==
    /\ Len(matchingResults.cards) = 2
    /\ matchingResults.cards[1].raw = matchingResults.cards[2].raw
    /\ matchingResults.cards[1].restaurant = 1

\* C9: whenever the match result is non-empty, the card at rank #1 has
\* display score exactly 10.
C9_TopIsTen ==
    matchingResults.kind = "match-cards" => matchingResults.cards[1].rating = <<10, 1>>

\* C10: every card's display score is 10 * raw / max raw of the same result,
\* and so at most 10.
C10_DisplayIsScaledRaw ==
    matchingResults.kind = "match-cards" =>
        \E m \in 1..Len(matching) :
            LET max == matching[m][3]
            IN  /\ \A k \in 1..Len(matching) :
                      matching[k][3][1] * max[2] <= max[1] * matching[k][3][2]
                /\ \A i \in 1..Len(matchingResults.cards) :
                      LET c == matchingResults.cards[i]
                      IN  /\ c.raw = matching[i][3]
                          /\ c.rating[2] > 0
                          /\ c.rating[1] * max[1] * c.raw[2]
                                 = 10 * c.raw[1] * max[2] * c.rating[2]
                          /\ c.rating[1] <= 10 * c.rating[2]

\* C11: when every raw group score of the result is zero, renderMatchingList
\* divides nothing by zero: it shows the "no matches" empty state.
AllScoresZero(list) == \A i \in 1..Len(list) : list[i][3] = Num(0)

C11_AllZeroIsNoMatches ==
    (matchingResults.kind # "" /\ AllScoresZero(matching)) =>
        /\ matchingResults = EmptyState
        /\ \A i \in 1..Len(matchingResults.cards) :
               matchingResults.cards[i].rating # NaN

\* C12: an empty result and a failed request are told apart.  When the answer
\* to a match request arrives, either it is a successful list, which becomes
\* `matching`, switches to the matching screen and, when empty, is rendered
\* as 'No matching restaurants found'; or the request failed, which raises an
\* error alert and leaves `matching`, the rendered list and currentScreen as
\* they were.
IsErrorAlert(a) == a # NoAlert /\ a[3] = "error"

C12_EmptyOrFailed ==
    [][\A i \in 1..Len(inflight) :
          inflight' = RemoveAt(inflight, i) =>
             LET res == Match(inflight[i].user_ratings)
             IN  \/ /\ IsErrorAlert(alert')
                    /\ matching' = matching
                    /\ matchingResults' = matchingResults
                    /\ currentScreen' = currentScreen
                 \/ /\ res.ok
                    /\ ~IsErrorAlert(alert')
                    /\ matching' = res.result
                    /\ currentScreen' = "matching"
                    /\ matching' = <<>> =>
                          /\ matchingResults'.kind = "empty-state"
                          /\ matchingResults'.text = "No matching restaurants found"]_vars

\* an empty result was rendered, and then a second request failed
C12_Witness ==
    /\ issued = 2
    /\ inflight = <<>>
    /\ matching = <<>>
    /\ matchingResults.kind = "empty-state"
    /\ currentScreen = "matching"
    /\ IsErrorAlert(alert)

\* C13: after a toggle was refused because the current user had 3 day-of
\* ratings, removing any one of that user's ratings (removeDayofRating, or
\* toggling a key the user has) makes the same toggle succeed the next time:
\* the rating is added with value 5.0 and the user has exactly 3 again.
C13_RetrySucceeds ==
    rejected.stage = "retried" =>
        LET dayofRatings == DayofRatingsOf(rejected.user)
        IN  /\ alert # <<"dayofAlert", "Maximum 3 day-of ratings allowed!", "warning">>
            /\ rejected.key \in DOMAIN dayofRatings
            /\ dayofRatings[rejected.key].rating = 5
            /\ Cardinality(DOMAIN dayofRatings) = 3

C13_Witness ==
    /\ rejected.stage = "retried"
    /\ rejected.user \in Users
    /\ rejected.user = lastSelectedUser

\* C14: every rating the client holds (restaurantRatings, cuisineRatings and
\* every day-of rating), and so every rating it sends, lies in [1.0, 10.0],
\* whatever toggle and update operations were called with whatever value.
InRange(rating) == 1 <= rating /\ rating <= 10

C14_RatingsInRange ==
    /\ \A id \in DOMAIN restaurantRatings : InRange(restaurantRatings[id])
    /\ \A cuisine \in DOMAIN cuisineRatings : InRange(cuisineRatings[cuisine])
    /\ \A u \in DOMAIN dayofRatingsByUser :
          \A key \in DOMAIN dayofRatingsByUser[u] :
             InRange(dayofRatingsByUser[u][key].rating)
    /\ \A i \in 1..Len(inflight) :
          \A j \in 1..Len(inflight[i].user_ratings) :
             \A k \in 1..Len(inflight[i].user_ratings[j].ratings) :
                InRange(inflight[i].user_ratings[j].ratings[k].rating)

\* C15: every request that carries day-of ratings attaches to each user_id
\* only ratings that were entered for that same user: each element of
\* callMagic's user_ratings holds its own user's ratings, and every entry of
\* saveAllDayofRatings' payload is a rating of the user its user_id names.
EnteredFor(userId, entry) ==
    \E key \in DOMAIN DayofRatingsOf(userId) :
        LET rating == DayofRatingsOf(userId)[key]
        IN  /\ entry.rating = rating.rating
            /\ IF rating.type = "restaurant"
               THEN "restaurant_id" \in DOMAIN entry /\ entry.restaurant_id = rating.id
               ELSE "cuisine" \in DOMAIN entry /\ entry.cuisine = rating.id

C15_RatingsOfTheNamedUser ==
    [][/\ Len(inflight') > Len(inflight) =>
             LET sent == inflight'[Len(inflight')].user_ratings
             IN  \A j \in 1..Len(sent) :
                    /\ Len(sent[j].ratings) = Cardinality(DOMAIN DayofRatingsOf(sent[j].user_id))
                    /\ \A k \in 1..Len(sent[j].ratings) :
                          EnteredFor(sent[j].user_id, sent[j].ratings[k])
       /\ Len(bulkInflight') > Len(bulkInflight) =>
             LET sent == bulkInflight'[Len(bulkInflight')].ratings
             IN  \A k \in 1..Len(sent) : EnteredFor(sent[k].user_id, sent[k])]_vars

\* C16: in every reachable state lastSelectedUser is -1 or a member of
\* selectedUsers, so a day-of edit only changes the ratings of a user who is
\* selected; across toggleUser, selectAllUsers, deselectAllUsers,
\* deleteSelectedUsers and switchScreen.
C16_LastSelectedIsSelected ==
    lastSelectedUser = -1 \/ lastSelectedUser \in selectedUsers

\* C17: after any sequence of toggleUser, selectAllUsers, deselectAllUsers,
\* deleteSelectedUsers and switchScreen the match button is visible exactly
\* when at least 2 users are selected.
C17_MatchButtonIffTwoSelected ==
    (matchbtn # "none") <=> (Cardinality(selectedUsers) >= 2)

\* C18: overlapping match requests do not interfere: once every answer has
\* arrived, `matching` is the answer to the match request that was issued
\* last, never the answer to an earlier one.
C18_LastIssuedWins ==
    (inflight = <<>> /\ issued > 0 /\ answered.seq = issued) =>
        matching = answered.result

====
